---- MODULE Spec2Model ----
(***************************************************************************)
(* Streaming bee-coverage pipeline (RabbitMQBeeProcessor), its detector    *)
(* (BeeDetector) and its background builder (ImageProcessor).              *)
(*                                                                         *)
(* Images are uniform: every pixel of an image has the same BGR colour, so *)
(* an image is its shape and that colour.  On uniform images the OpenCV    *)
(* calls of the sources have an exact, closed-form result (a blur, an      *)
(* opening or a closing leaves them uniform; the mask of a difference is   *)
(* empty or full), which is what the operators below compute.  Crop        *)
(* polygons are axis-aligned boxes (or degenerate boxes), whose raster     *)
(* covers their whole bounding rectangle.                                  *)
(*                                                                         *)
(* Percentages are kept exactly: a percentage rounded to 3 decimals is an  *)
(* integer number of thousandths of a percent.                             *)
(***************************************************************************)
EXTENDS Integers, Sequences, FiniteSets, TLC

(* an optional value: None, or Some(x) whose value is Get *)
None == << >>
Some(x) == <<x>>
Get(o) == o[1]

Min(a, b) == IF a <= b THEN a ELSE b
Max(a, b) == IF a >= b THEN a ELSE b
Abs(a) == IF a >= 0 THEN a ELSE -a

(* round(num/den) to the nearest integer, ties to even (Python's round), den > 0, num >= 0 *)
RoundDiv(num, den) ==
    LET q == num \div den
        r == num % den
    IN  IF 2 * r < den THEN q
        ELSE IF 2 * r > den THEN q + 1
        ELSE IF q % 2 = 0 THEN q ELSE q + 1

(***************************************************************************)
(* Program constants.                                                      *)
(***************************************************************************)
DETECTION_THRESHOLDS == <<15, 25, 35, 45>>
MIN_BEE_AREA == 20
MAX_BEE_AREA == 8000
COLOR_LOWER_BEE == <<5, 20, 20>>
COLOR_UPPER_BEE == <<25, 255, 180>>
(* MIN_ASPECT_RATIO = 0.3, MAX_ASPECT_RATIO = 3.0, MIN_SOLIDITY = 0.3, in tenths *)
MIN_ASPECT_RATIO_10 == 3
MAX_ASPECT_RATIO_10 == 30
MIN_SOLIDITY_10 == 3
(* create_background_from_buffer: "Minimum 5 zdjec" *)
MIN_BUFFER_FOR_BACKGROUND == 5
(* analyze_image: caps of the selection score, and the color-fallback rule *)
COVERAGE_SCORE_CAP == 60
CONTOUR_SCORE_CAP == 20
FALLBACK_RATIO_10 == 12
FALLBACK_FLOOR == 3
(* threshold_used of a color result, 'color_based', as a number that is no threshold *)
COLOR_BASED == -1

(***************************************************************************)
(* Bounds of the model.                                                    *)
(***************************************************************************)
MaxMessages == 6
BackgroundSizes == {4, 5, 6}
UpdateFrequencies == {1, 2}

GREY == <<100, 100, 100>>
BROWN == <<40, 80, 120>>

(* raw frames as decoded from a message body: rows x cols, uniform colour *)
RawFull(c) == [rows |-> 8, cols |-> 8, bgr |-> c]
RawNarrow(c) == [rows |-> 8, cols |-> 4, bgr |-> c]

(* a filename is a sequence of characters *)
NameHive == <<"h", " ", "1", ".", "J", "P", "G">>
NameRaw == <<"a", "b">>
NameUnknown == <<"u", "n", "k", "n", "o", "w", "n", ".", "j", "p", "g">>

(* the messages delivered: the frame the body decodes to (None: it does not
   decode) and the filename header (None: no header) *)
Messages ==
    { [body |-> None, filename |-> None],
      [body |-> Some(RawFull(GREY)), filename |-> None],
      [body |-> Some(RawFull(BROWN)), filename |-> Some(NameHive)],
      [body |-> Some(RawNarrow(GREY)), filename |-> Some(NameRaw)] }

(* crop polygons: sequences of <<x, y>> points *)
BoxPolygon == << <<0, 0>>, <<5, 0>>, <<5, 4>>, <<0, 4>> >>
(* two points; three points on one line *)
SegmentPolygon == << <<0, 0>>, <<5, 0>> >>
FlatPolygon == << <<0, 0>>, <<5, 0>>, <<2, 0>> >>

(* what the polygon file can hold (any pickled list of points); what the
   manual selection can return (three points or more) *)
PersistedPolygons == {BoxPolygon, SegmentPolygon}
ManualPolygons == {BoxPolygon, FlatPolygon}
Polygons == PersistedPolygons \cup ManualPolygons

(***************************************************************************)
(* OpenCV / numpy on uniform images.                                       *)
(***************************************************************************)

(* cv2.contourArea: the shoelace formula (the polygons used have an even doubled area) *)
ShoelaceSum(pts) ==
    LET n == Len(pts)
        nxt(i) == IF i = n THEN 1 ELSE i + 1
        term(i) == pts[i][1] * pts[nxt(i)][2] - pts[nxt(i)][1] * pts[i][2]
        F[i \in 0..n] == IF i = 0 THEN 0 ELSE F[i - 1] + term(i)
    IN  F[n]

contourArea(pts) == Abs(ShoelaceSum(pts)) \div 2

(* cv2.boundingRect: x, y, w, h with w and h counting pixels *)
boundingRect(pts) ==
    LET xs == {pts[i][1] : i \in 1..Len(pts)}
        ys == {pts[i][2] : i \in 1..Len(pts)}
        x0 == CHOOSE v \in xs : \A u \in xs : v <= u
        x1 == CHOOSE v \in xs : \A u \in xs : v >= u
        y0 == CHOOSE v \in ys : \A u \in ys : v <= u
        y1 == CHOOSE v \in ys : \A u \in ys : v >= u
    IN  [x |-> x0, y |-> y0, w |-> x1 - x0 + 1, h |-> y1 - y0 + 1]

(* cv2.cvtColor(img, COLOR_BGR2GRAY) of one 8-bit pixel (fixed point, 14 bits) *)
GrayOf(bgr) == (bgr[3] * 4899 + bgr[2] * 9617 + bgr[1] * 1868 + 8192) \div 16384

cvtColorGray(img) == [w |-> img.w, h |-> img.h, v |-> GrayOf(img.bgr)]

(* cv2.cvtColor(img, COLOR_BGR2HSV) of one 8-bit pixel: H in 0..179, S, V in 0..255 *)
HsvOf(bgr) ==
    LET b == bgr[1]
        g == bgr[2]
        r == bgr[3]
        v == Max(b, Max(g, r))
        mn == Min(b, Min(g, r))
        diff == v - mn
        s == IF v = 0 THEN 0 ELSE RoundDiv(255 * diff, v)
        hraw == IF diff = 0 THEN 0
                ELSE IF v = r THEN (g - b)
                ELSE IF v = g THEN (b - r) + 2 * diff
                ELSE (r - g) + 4 * diff
        hpos == IF hraw < 0 THEN hraw + 6 * diff ELSE hraw
        h == IF diff = 0 THEN 0 ELSE RoundDiv(30 * hpos, diff) % 180
    IN  <<h, s, v>>

(* cv2.inRange of one pixel: 255 inside the box, 0 outside *)
inRange(hsv, lower, upper) ==
    IF \A k \in 1..3 : lower[k] <= hsv[k] /\ hsv[k] <= upper[k] THEN 255 ELSE 0

(* cv2.GaussianBlur(img, (3, 3), 0) of a uniform plane: the kernel 1/4, 1/2, 1/4 *)
GaussianBlur(v) == (v + 2 * v + v) \div 4

threshold_ge(v, thresh) == IF v >= thresh THEN 255 ELSE 0

(* cv2.threshold(src, thresh, 255, THRESH_BINARY): 255 where src > thresh *)
threshold(v, thresh) == IF v > thresh THEN 255 ELSE 0

(* the threshold THRESH_OTSU picks on a uniform plane: the histogram has one
   bin, no split has two non-empty classes, and the search returns 0 *)
OtsuThreshold(v) == 0

bitwise_or(a, b) == Max(a, b)

(* cv2.morphologyEx, MORPH_OPEN or MORPH_CLOSE, of a uniform plane *)
morphologyEx(v) == v

(* cv2.findContours(RETR_EXTERNAL) of a uniform w x h mask: none when it is
   empty, else the one contour around the whole plane *)
findContours(w, h, v) ==
    IF v = 0 \/ w = 0 \/ h = 0 THEN << >>
    ELSE << << <<0, 0>>, <<0, h - 1>>, <<w - 1, h - 1>>, <<w - 1, 0>> >> >>

(* the pixels cv2.fillPoly sets for a box contour: its bounding rectangle *)
fillPolyPixels(pts) == LET b == boundingRect(pts) IN b.w * b.h

(* k-th smallest value of a sequence of numbers *)
Kth(vals, k) ==
    CHOOSE v \in {vals[i] : i \in 1..Len(vals)} :
        /\ Cardinality({i \in 1..Len(vals) : vals[i] < v}) < k
        /\ Cardinality({i \in 1..Len(vals) : vals[i] <= v}) >= k

MedianU8_first(vals) == vals[1]

(* np.median(...).astype(np.uint8): the middle value, or the mean of the two
   middle values truncated *)
MedianU8(vals) ==
    LET n == Len(vals)
    IN  IF n % 2 = 1 THEN Kth(vals, (n + 1) \div 2)
        ELSE (Kth(vals, n \div 2) + Kth(vals, n \div 2 + 1)) \div 2

(* cv2.resize of a uniform image: the new shape, the same colour *)
resize(img, w, h) == [w |-> w, h |-> h, bgr |-> img.bgr]

(***************************************************************************)
(* ImageProcessor.                                                         *)
(***************************************************************************)

(* ImageProcessor.__init__: the polygon and its mathematical area *)
ImageProcessor(polygon) ==
    [crop_polygon |-> polygon, polygon_area |-> contourArea(polygon)]

(* ImageProcessor.crop_image_array: mask by the polygon, then slice the
   bounding rectangle out of the frame (a slice past the frame is cut short) *)
crop_image_array(ip, image) ==
    LET b == boundingRect(ip.crop_polygon)
        w == Max(0, Min(b.x + b.w, image.cols) - Min(b.x, image.cols))
        h == Max(0, Min(b.y + b.h, image.rows) - Min(b.y, image.rows))
    IN  [w |-> w, h |-> h, bgr |-> image.bgr]

create_background_never_fails(images) ==
    Some([w |-> IF Len(images) = 0 THEN 0 ELSE images[1].w,
          h |-> IF Len(images) = 0 THEN 0 ELSE images[1].h,
          bgr |-> IF Len(images) = 0 THEN <<0, 0, 0>> ELSE images[1].bgr])

(* ImageProcessor.create_background, method 'median': frames resized to the
   first one's shape, per-pixel per-channel median, then a 3x3 blur *)
create_background(images) ==
    IF Len(images) = 0 THEN None
    ELSE Some(
         LET width == images[1].w
             height == images[1].h
             processed == [i \in 1..Len(images) |->
                             IF images[i].w # width \/ images[i].h # height
                             THEN resize(images[i], width, height)
                             ELSE images[i]]
             chan(k) == [i \in 1..Len(processed) |-> processed[i].bgr[k]]
             med == <<MedianU8(chan(1)), MedianU8(chan(2)), MedianU8(chan(3))>>
         IN  [w |-> width, h |-> height,
              bgr |-> <<GaussianBlur(med[1]), GaussianBlur(med[2]), GaussianBlur(med[3])>>])

(***************************************************************************)
(* BeeDetector.                                                            *)
(***************************************************************************)

(* BeeDetector.__init__ *)
BeeDetector(background_image, valid_area_pixels) ==
    [background |-> background_image,
     background_gray |-> cvtColorGray(background_image),
     valid_area_pixels |-> valid_area_pixels]

update_background_new_detector(det, new_background_image) ==
    BeeDetector(new_background_image, 0)

(* whether cv2.cvtColor(image, COLOR_BGR2GRAY) accepts the image: it raises
   cv2.error on an image that has no colour channels *)
cvtColor_accepts(image) == Len(image.bgr) = 3

(* BeeDetector.update_background: the detector it leaves.  self.background is
   assigned first; when cv2.cvtColor then raises, background_gray is left as
   it was *)
update_background(det, new_background_image) ==
    IF cvtColor_accepts(new_background_image)
    THEN [det EXCEPT !.background = new_background_image,
                     !.background_gray = cvtColorGray(new_background_image)]
    ELSE [det EXCEPT !.background = new_background_image]

(* detect_bees, the shape filter of one contour: area, aspect ratio, solidity *)
contour_is_bee(contour) ==
    LET area == contourArea(contour)
        b == boundingRect(contour)
        hull_area == contourArea(contour)
    IN  /\ MIN_BEE_AREA <= area /\ area <= MAX_BEE_AREA
        /\ MIN_ASPECT_RATIO_10 * b.h <= 10 * b.w
        /\ 10 * b.w <= MAX_ASPECT_RATIO_10 * b.h
        /\ hull_area > 0
        /\ 10 * area > MIN_SOLIDITY_10 * hull_area

(* whether cv2.absdiff accepts the two planes *)
same_shape(a, b) == a.w = b.w /\ a.h = b.h

(* BeeDetector.detect_bees: [raised, bee_mask (its non-zero pixels), contours] *)
detect_bees(det, image, thresh) ==
    LET gray == cvtColorGray(image)
        gray_blurred == GaussianBlur(gray.v)
        background_blurred == GaussianBlur(det.background_gray.v)
        diff == Abs(background_blurred - gray_blurred)
        fixed == threshold(diff, thresh)
        thresh_otsu == threshold(diff, OtsuThreshold(diff))
        cleaned == morphologyEx(morphologyEx(bitwise_or(fixed, thresh_otsu)))
        contours == findContours(image.w, image.h, cleaned)
        bee_contours == SelectSeq(contours, contour_is_bee)
        pixels == IF Len(bee_contours) = 0 THEN 0 ELSE fillPolyPixels(bee_contours[1])
    IN  IF ~same_shape(gray, det.background_gray)
        THEN [raised |-> TRUE, bee_mask |-> 0, contours |-> 0]
        ELSE [raised |-> FALSE, bee_mask |-> pixels, contours |-> Len(bee_contours)]

(* BeeDetector.calculate_bee_area: np.sum(bee_mask > 0) *)
calculate_bee_area(bee_mask) == bee_mask

(* BeeDetector.calculate_total_area *)
calculate_total_area(det, image) ==
    IF det.valid_area_pixels # 0
    THEN det.valid_area_pixels
    ELSE image.h * image.w

(* round(100 * area / total, 3), in thousandths of a percent *)
Percentage3(area, total) == RoundDiv(100000 * area, total)

(* the selection score min(coverage, 60) + min(2 * contours, 20), times total *)
ScoreTimesTotal(bee_area, num_contours, total) ==
    Min(100 * bee_area, COVERAGE_SCORE_CAP * total)
        + Min(num_contours * 2, CONTOUR_SCORE_CAP) * total

score_beats_or_ties(score, best_score) == score >= best_score

(* analyze_image, "if score > best_score" *)
score_beats(score, best_score) == score > best_score

(* analyze_image, Method 1: the loop over the thresholds.  cands[i] is what
   detect_bees gave at thresholds[i]; the state of the loop is best_result and
   best_score (times total; -1 at the start) *)
select_best(cands, thresholds, total, filename) ==
    LET step(best, i) ==
            LET bee_area == calculate_bee_area(cands[i].bee_mask)
                score == ScoreTimesTotal(bee_area, cands[i].contours, total)
            IN  IF score_beats(score, best.best_score)
                THEN [best_score |-> score,
                      best_result |-> Some(
                        [filename |-> filename,
                         bee_area_pixels |-> bee_area,
                         total_area_pixels |-> total,
                         bee_percentage |-> Percentage3(bee_area, total),
                         num_bee_contours |-> cands[i].contours,
                         threshold_used |-> thresholds[i],
                         detection_method |-> "background_subtraction",
                         score |-> RoundDiv(100 * score, total),
                         bee_mask |-> cands[i].bee_mask])]
                ELSE best
        F[i \in 0..Len(cands)] ==
            IF i = 0 THEN [best_score |-> -total, best_result |-> None]
            ELSE step(F[i - 1], i)
    IN  Get(F[Len(cands)].best_result)

(* analyze_image, the condition of the color fallback:
   color_bee_percentage > best_result['bee_percentage'] * 1.2 and
   color_bee_percentage > 3, the left-hand side being 100 * color_area / total
   and best_result['bee_percentage'] the rounded percentage *)
use_color(color_bee_area, best_percentage, total) ==
    /\ 10 * 100000 * color_bee_area > FALLBACK_RATIO_10 * best_percentage * total
    /\ 100 * color_bee_area > FALLBACK_FLOOR * total

color_fallback_stale_percentage(best_result, color_bee_area, filtered_contours, total) ==
    IF use_color(color_bee_area, best_result.bee_percentage, total)
    THEN [best_result EXCEPT
            !.bee_area_pixels = color_bee_area,
            !.num_bee_contours = filtered_contours,
            !.threshold_used = COLOR_BASED,
            !.detection_method = "color_segmentation",
            !.bee_mask = color_bee_area]
    ELSE best_result

(* analyze_image, Method 2: the update of best_result by the color result *)
color_fallback(best_result, color_bee_area, filtered_contours, total) ==
    IF use_color(color_bee_area, best_result.bee_percentage, total)
    THEN [best_result EXCEPT
            !.bee_area_pixels = color_bee_area,
            !.bee_percentage = Percentage3(color_bee_area, total),
            !.num_bee_contours = filtered_contours,
            !.threshold_used = COLOR_BASED,
            !.detection_method = "color_segmentation",
            !.bee_mask = color_bee_area]
    ELSE best_result

(* analyze_image, the color mask of a uniform frame: [pixels, contours that
   pass the area filter] *)
color_segmentation(image) ==
    LET v == morphologyEx(morphologyEx(
                 inRange(HsvOf(image.bgr), COLOR_LOWER_BEE, COLOR_UPPER_BEE)))
        contours_color == findContours(image.w, image.h, v)
        by_area(c) == MIN_BEE_AREA <= contourArea(c) /\ contourArea(c) <= MAX_BEE_AREA
    IN  [pixels |-> IF v > 0 THEN image.w * image.h ELSE 0,
         filtered |-> Len(SelectSeq(contours_color, by_area))]

(* BeeDetector.analyze_image, from what detect_bees gave at each threshold
   (cands), the color mask (color) and the total area: [raised, result] *)
analyze_masks(cands, color, total, filename) ==
    LET best == select_best(cands, DETECTION_THRESHOLDS, total, filename)
    IN  IF \E i \in 1..Len(cands) : cands[i].raised
        THEN [raised |-> TRUE, result |-> None]
        ELSE [raised |-> FALSE,
              result |-> Some(color_fallback(best, color.pixels, color.filtered, total))]

(* BeeDetector.analyze_image: [raised, result] *)
analyze_image(det, image, filename) ==
    analyze_masks([i \in 1..Len(DETECTION_THRESHOLDS) |->
                      detect_bees(det, image, DETECTION_THRESHOLDS[i])],
                  color_segmentation(image),
                  calculate_total_area(det, image),
                  filename)

(***************************************************************************)
(* RabbitMQBeeProcessor: the state.                                        *)
(***************************************************************************)
VARIABLES
    background_size,             \* processing_config['background_size']
    background_update_frequency, \* processing_config['background_update_frequency']
    polygon_file,                \* the persisted crop polygon file: None, or its polygon
    crop_polygon,
    image_processor,
    bee_detector,
    bee_database,
    image_buffer,
    results,
    image_count,
    is_running,
    started,      \* start_consuming has been called
    connection,   \* self.connection: None, or the open connection
    prefetch_count, \* channel.basic_qos(prefetch_count): 0 while not set (no limit)
    inflight,     \* delivery tags sent by the broker and not confirmed yet, in order
    delivered,    \* messages handed to callback so far
    last,         \* what callback did with the last message (history)
    ingested,     \* every frame appended to image_buffer, with its image_count, the
                  \* filename header of its message and the filename it was given (history)
    builds,       \* the image_count of every frame on which a reference was installed (history)
    recorder,     \* the image_count of every row committed to bee_detections
    scene,        \* analyze_image on its own: the masks of the image it is given
    analyzed,     \* analyze_image on its own: what it returned
    image_list,      \* create_background on its own: the frames it is given
    reference_image  \* create_background on its own: None, or what it returned

vars == <<background_size, background_update_frequency, polygon_file, crop_polygon,
          image_processor, bee_detector, bee_database, image_buffer, results,
          image_count, is_running, started, connection, prefetch_count,
          inflight, delivered, last, ingested, builds, recorder, scene, analyzed,
                   image_list, reference_image>>

(* timestamps datetime.now().isoformat() can give, as character sequences *)
Timestamps == { <<"1", "2", ":", "0", "0">> }

NoMessage ==
    [tag |-> 0, confirms |-> << >>, decoded |-> FALSE, counted |-> FALSE,
     appended |-> FALSE, was_ready |-> FALSE, analysed |-> FALSE, raised |-> FALSE,
     emitted |-> 0, events |-> << >>, build_attempted |-> FALSE, built |-> FALSE,
     frame |-> None, reference |-> None, result |-> None, inserted |-> "none"]

(***************************************************************************)
(* Filenames.                                                              *)
(***************************************************************************)
LowerCase == <<"a","b","c","d","e","f","g","h","i","j","k","l","m",
               "n","o","p","q","r","s","t","u","v","w","x","y","z">>
UpperCase == <<"A","B","C","D","E","F","G","H","I","J","K","L","M",
               "N","O","P","Q","R","S","T","U","V","W","X","Y","Z">>
DigitChars == <<"0","1","2","3","4","5","6","7","8","9">>

Range(f) == {f[i] : i \in DOMAIN f}

(* the characters re.sub(r'[^\w\-_\.]', '_', ...) keeps *)
SafeChars == Range(LowerCase) \cup Range(UpperCase) \cup Range(DigitChars) \cup {"-", "_", "."}

lower(c) == IF c \in Range(UpperCase)
            THEN LowerCase[CHOOSE i \in 1..26 : UpperCase[i] = c]
            ELSE c

endswith(name, suffix) ==
    /\ Len(name) >= Len(suffix)
    /\ \A i \in 1..Len(suffix) : lower(name[Len(name) - Len(suffix) + i]) = suffix[i]

Pow10(k) == IF k = 0 THEN 1 ELSE IF k = 1 THEN 10 ELSE IF k = 2 THEN 100
            ELSE IF k = 3 THEN 1000 ELSE IF k = 4 THEN 10000 ELSE 100000

(* f"{n:06d}" *)
Digits6(n) == [i \in 1..6 |-> DigitChars[((n \div Pow10(6 - i)) % 10) + 1]]

(* process_single_image, the filename: synthesized from image_count and the
   timestamp when None, else sanitized, ".jpg" added when no image extension *)
frame_filename(filename, count, timestamp) ==
    IF filename = None
    THEN <<"i","m","a","g","e","_">> \o Digits6(count) \o <<"_">>
           \o [i \in 1..Len(timestamp) |-> IF timestamp[i] = ":" THEN "_" ELSE timestamp[i]]
           \o <<".","j","p","g">>
    ELSE LET given == Get(filename)
             clean == [i \in 1..Len(given) |->
                          IF given[i] \in SafeChars THEN given[i] ELSE "_"]
         IN  IF \/ endswith(clean, <<".","j","p","g">>)
                \/ endswith(clean, <<".","j","p","e","g">>)
                \/ endswith(clean, <<".","p","n","g">>)
             THEN clean
             ELSE clean \o <<".","j","p","g">>

(***************************************************************************)
(* RabbitMQBeeProcessor: the operations.                                   *)
(***************************************************************************)

(* decode_image_from_message: [image, filename]; the filename of the header,
   "unknown.jpg" without one; None, None when cv2.imdecode gives no image *)
decode_image_from_message(msg) ==
    IF msg.body = None
    THEN [image |-> None, filename |-> None]
    ELSE [image |-> msg.body,
          filename |-> IF msg.filename # None THEN msg.filename ELSE Some(NameUnknown)]

(* load_crop_polygon: [ok, crop_polygon, image_processor, polygon_file].
   manual is what ManualCropper.get_crop_polygon returns (None: cancelled) *)
load_crop_polygon(first_image, manual) ==
    LET loaded == polygon_file # None
        polygon == IF loaded THEN polygon_file
                   ELSE IF first_image # None THEN manual
                   ELSE crop_polygon
        usable == polygon # None /\ Len(Get(polygon)) > 0
    IN  [ok |-> usable,
         crop_polygon |-> polygon,
         image_processor |-> IF usable THEN Some(ImageProcessor(Get(polygon)))
                             ELSE image_processor,
         polygon_file |-> IF ~loaded /\ first_image # None /\ usable
                          THEN polygon ELSE polygon_file]

deque_append_unbounded(buffer, item, maxlen) == Append(buffer, item)

(* deque(maxlen).append *)
deque_append(buffer, item, maxlen) ==
    IF maxlen = 0 THEN buffer
    ELSE IF Len(buffer) >= maxlen THEN Append(Tail(buffer), item)
    ELSE Append(buffer, item)

create_background_from_buffer_stale(buffer) ==
    IF Len(buffer) < MIN_BUFFER_FOR_BACKGROUND THEN None
    ELSE create_background(SubSeq(buffer, 1, Len(buffer) - 1))

(* create_background_from_buffer *)
create_background_from_buffer(buffer) ==
    IF Len(buffer) < MIN_BUFFER_FOR_BACKGROUND THEN None
    ELSE create_background(buffer)

buffer_full_off_by_one(buffer, size) == Len(buffer) >= size - 1

(* process_single_image: len(self.image_buffer) >= background_size *)
buffer_full(buffer, size) == Len(buffer) >= size

update_due_shifted(count, frequency) == count % frequency = 1 % frequency

(* process_single_image: image_count % background_update_frequency == 0 *)
update_due(count, frequency) == count % frequency = 0

annotate_result_stale_count(r, ip, name, count, timestamp) ==
    [filename |-> name,
     timestamp |-> timestamp,
     original_timestamp |-> timestamp,
     image_count |-> count - 1,
     bee_area_pixels |-> r.bee_area_pixels,
     total_area_pixels |-> r.total_area_pixels,
     bee_percentage |-> r.bee_percentage,
     num_bee_contours |-> r.num_bee_contours,
     threshold_used |-> r.threshold_used,
     detection_method |-> r.detection_method,
     score |-> r.score,
     bee_mask |-> r.bee_mask,
     total_area |-> ip.polygon_area,
     bee_area |-> (r.bee_percentage * ip.polygon_area) \div 100000,
     background_updated |-> (count % background_update_frequency = 0)]

(* process_single_image, the fields added to the result of analyze_image *)
annotate_result(r, ip, name, count, timestamp) ==
    [filename |-> name,
     timestamp |-> timestamp,
     original_timestamp |-> timestamp,
     image_count |-> count,
     bee_area_pixels |-> r.bee_area_pixels,
     total_area_pixels |-> r.total_area_pixels,
     bee_percentage |-> r.bee_percentage,
     num_bee_contours |-> r.num_bee_contours,
     threshold_used |-> r.threshold_used,
     detection_method |-> r.detection_method,
     score |-> r.score,
     bee_mask |-> r.bee_mask,
     total_area |-> ip.polygon_area,
     bee_area |-> (r.bee_percentage * ip.polygon_area) \div 100000,
     background_updated |-> (count % background_update_frequency = 0)]

(* process_single_image with image processor ip, on the state with
   image_count already incremented to count: the new image_buffer and bee_detector, the result (None: none), and
   whether an exception left it (raised) *)
process_single_image(ip, image, filename, count, timestamp) ==
    LET name == frame_filename(filename, count, timestamp)
        cropped_img == crop_image_array(ip, image)
        buffer == deque_append(image_buffer, cropped_img, background_size)
        first == bee_detector = None
        build == IF first THEN buffer_full(buffer, background_size)
                 ELSE update_due(count, background_update_frequency)
                        /\ buffer_full(buffer, background_size)
        background == IF build THEN create_background_from_buffer(buffer) ELSE None
        detector == IF background = None THEN bee_detector
                    ELSE IF first
                         THEN Some(BeeDetector(Get(background), ip.polygon_area))
                         ELSE Some(update_background(Get(bee_detector), Get(background)))
        analysis == IF detector = None THEN [raised |-> FALSE, result |-> None]
                    ELSE IF background # None /\ ~cvtColor_accepts(Get(background))
                    THEN [raised |-> TRUE, result |-> None]
                    ELSE analyze_image(Get(detector), cropped_img, name)
    IN  [image_buffer |-> buffer,
         bee_detector |-> detector,
         cropped_img |-> cropped_img,
         filename |-> name,
         attempted |-> build,
         built |-> background # None,
         analysed |-> detector # None,
         raised |-> analysis.raised,
         result |-> IF analysis.result = None THEN None
                    ELSE Some(annotate_result(Get(analysis.result), ip, name, count,
                                              timestamp))]

(* callback: the confirmations sent for the message, in order *)
basic_ack == [op |-> "basic_ack", requeue |-> FALSE]
basic_nack == [op |-> "basic_nack", requeue |-> FALSE]

callback_confirms_ack_first(decoded, region_ok, raised) ==
    IF ~decoded THEN <<basic_ack>>
    ELSE IF ~region_ok THEN <<basic_nack>>
    ELSE IF raised THEN <<basic_ack, basic_nack>>
    ELSE <<basic_ack>>

callback_confirms_requeue_undecodable(decoded, region_ok, raised) ==
    IF ~decoded THEN <<[op |-> "basic_nack", requeue |-> TRUE]>>
    ELSE IF ~region_ok THEN <<basic_nack>>
    ELSE IF raised THEN <<basic_nack>>
    ELSE <<basic_ack>>

callback_confirms(decoded, region_ok, raised) ==
    IF ~decoded THEN <<basic_ack>>
    ELSE IF ~region_ok THEN <<basic_nack>>
    ELSE IF raised THEN <<basic_nack>>
    ELSE <<basic_ack>>

callback_events_ack_first(decoded, loaded, region_ok, emitted, has_db, raised) ==
    [i \in 1..Len(callback_confirms(decoded, region_ok, raised)) |->
        callback_confirms(decoded, region_ok, raised)[i].op]
      \o <<"decode_image_from_message">>
      \o (IF decoded /\ region_ok THEN <<"process_single_image">> ELSE << >>)
      \o (IF emitted THEN <<"results.append">> ELSE << >>)
      \o (IF emitted /\ has_db THEN <<"insert_detection_result">> ELSE << >>)

(* callback: the calls it makes, in the order it makes them.  loaded: it
   called load_crop_polygon; emitted: process_single_image returned a result;
   has_db: self.bee_database is set *)
callback_events(decoded, loaded, region_ok, emitted, has_db, raised) ==
    <<"decode_image_from_message">>
      \o (IF decoded /\ loaded THEN <<"load_crop_polygon">> ELSE << >>)
      \o (IF decoded /\ region_ok THEN <<"process_single_image">> ELSE << >>)
      \o (IF emitted THEN <<"results.append">> ELSE << >>)
      \o (IF emitted /\ has_db THEN <<"insert_detection_result">> ELSE << >>)
      \o [i \in 1..Len(callback_confirms(decoded, region_ok, raised)) |->
             callback_confirms(decoded, region_ok, raised)[i].op]

(* what BeeDatabase.insert_detection_result can do with a row: commit it
   ("ok"), fail and roll back ("error"), or fail and fail to roll back, which
   leaves the method with an exception ("raised") *)
InsertOutcomes == {"ok", "error", "raised"}

(***************************************************************************)
(* The state machine.                                                      *)
(***************************************************************************)
Init ==
    /\ background_size \in BackgroundSizes
    /\ background_update_frequency \in UpdateFrequencies
    /\ polygon_file \in {None} \cup {Some(q) : q \in PersistedPolygons}
    /\ crop_polygon = None
    /\ image_processor = None
    /\ bee_detector = None
    /\ bee_database = None
    /\ image_buffer = << >>
    /\ results = << >>
    /\ image_count = 0
    /\ is_running = FALSE
    /\ started = FALSE
    /\ connection = None
    /\ prefetch_count = 0
    /\ inflight = << >>
    /\ delivered = 0
    /\ last = NoMessage
    /\ ingested = << >>
    /\ builds = << >>
    /\ recorder = << >>
    /\ scene = None
    /\ analyzed = None
    /\ image_list = << >>
    /\ reference_image = None

(* start_consuming, up to channel.start_consuming(): connect_to_rabbitmq
   succeeds or not; BeeDatabase(...) opens or raises *)
StartConsuming(connect_ok, db_opens) ==
    /\ ~started
    /\ started' = TRUE
    /\ connection' = IF connect_ok THEN Some("open") ELSE None
    /\ IF connect_ok /\ db_opens
       THEN LET l == load_crop_polygon(None, None)
            IN  /\ bee_database' = Some("open")
                /\ crop_polygon' = l.crop_polygon
                /\ image_processor' = l.image_processor
                /\ polygon_file' = l.polygon_file
                /\ prefetch_count' = 1
                /\ is_running' = TRUE
       ELSE UNCHANGED <<bee_database, crop_polygon, image_processor, polygon_file,
                        prefetch_count, is_running>>
    /\ UNCHANGED <<background_size, background_update_frequency, bee_detector,
                   image_buffer, results, image_count, inflight, delivered, last,
                   ingested, builds, recorder, scene, analyzed,
                   image_list, reference_image>>

(* the broker sends the next message of the queue to the consumer: it does so
   while the messages it has sent and that are not confirmed are fewer than
   prefetch_count *)
Deliver ==
    /\ is_running
    /\ prefetch_count = 0 \/ Len(inflight) < prefetch_count
    /\ delivered + Len(inflight) < MaxMessages
    /\ inflight' = Append(inflight, delivered + Len(inflight) + 1)
    /\ UNCHANGED <<background_size, background_update_frequency, polygon_file,
                   crop_polygon, image_processor, bee_detector, bee_database,
                   image_buffer, results, image_count, is_running, started,
                   connection, prefetch_count, delivered, last, ingested, builds,
                   recorder, scene, analyzed,
                   image_list, reference_image>>

region_needed_always(polygon) == TRUE

(* callback: "if self.crop_polygon is None" *)
region_needed(polygon) == polygon = None

(* what process_single_image gives when it is not reached *)
NotProcessed ==
    [image_buffer |-> << >>, bee_detector |-> None,
     cropped_img |-> [w |-> 0, h |-> 0, bgr |-> <<0, 0, 0>>],
     filename |-> << >>,
     attempted |-> FALSE, built |-> FALSE, analysed |-> FALSE, raised |-> FALSE, result |-> None]

(* what ManualCropper.get_crop_polygon can return: a polygon, or None (cancelled) *)
ManualOutcomes == {None} \cup {Some(q) : q \in ManualPolygons}

(* callback, for message msg, at time now.  The manual selection (consulted
   only by load_crop_polygon) and the recorder (consulted only for an emitted
   result) answer with any of their outcomes *)
Callback(msg, now) ==
    /\ is_running
    /\ inflight # << >>
    /\ \E dec \in {decode_image_from_message(msg)} :
       \E l \in IF dec.image # None /\ region_needed(crop_polygon)
                THEN {load_crop_polygon(dec.image, manual) : manual \in ManualOutcomes}
                ELSE {[ok |-> TRUE, crop_polygon |-> crop_polygon,
                       image_processor |-> image_processor,
                       polygon_file |-> polygon_file]} :
       \E counted \in {dec.image # None /\ l.ok} :
       \E count \in {IF counted THEN image_count + 1 ELSE image_count} :
       \E p \in {IF counted
                 THEN process_single_image(Get(l.image_processor), Get(dec.image),
                                           dec.filename, count, now)
                 ELSE NotProcessed} :
       \E emitted \in {counted /\ ~p.raised /\ p.result # None} :
       \E inserted \in IF emitted /\ bee_database # None
                       THEN InsertOutcomes ELSE {"none"} :
       \E raised \in {counted /\ (p.raised \/ inserted = "raised")} :
       \E new_results \in {IF emitted THEN Append(results, Get(p.result)) ELSE results} :
           /\ delivered' = delivered + 1
           /\ inflight' = SubSeq(inflight, 1 + Len(callback_confirms(dec.image # None,
                                                                      l.ok, raised)),
                                 Len(inflight))
           /\ crop_polygon' = l.crop_polygon
           /\ image_processor' = l.image_processor
           /\ polygon_file' = l.polygon_file
           /\ image_count' = count
           /\ image_buffer' = IF counted THEN p.image_buffer ELSE image_buffer
           /\ bee_detector' = IF counted THEN p.bee_detector ELSE bee_detector
           /\ results' = new_results
           /\ recorder' = IF inserted = "ok" THEN Append(recorder, count) ELSE recorder
           /\ ingested' = IF counted
                          THEN Append(ingested, [n |-> count, img |-> p.cropped_img,
                                                 header |-> msg.filename,
                                                 filename |-> p.filename])
                          ELSE ingested
           /\ builds' = IF counted /\ p.built THEN Append(builds, count) ELSE builds
           /\ last' = [tag |-> Head(inflight),
                       confirms |-> callback_confirms(dec.image # None, l.ok, raised),
                       decoded |-> dec.image # None,
                       counted |-> counted,
                       appended |-> counted,
                       was_ready |-> bee_detector # None,
                       analysed |-> p.analysed,
                       build_attempted |-> p.attempted,
                       built |-> p.built,
                       raised |-> raised,
                       emitted |-> Len(new_results) - Len(results),
                       events |-> callback_events(dec.image # None,
                                                  region_needed(crop_polygon), l.ok, emitted,
                                                  bee_database # None, raised),
                       frame |-> IF counted THEN Some(p.cropped_img) ELSE None,
                       reference |-> IF p.analysed
                                     THEN Some(Get(p.bee_detector).background)
                                     ELSE None,
                       result |-> IF emitted THEN p.result ELSE None,
                       inserted |-> inserted]
    /\ UNCHANGED <<background_size, background_update_frequency, bee_database,
                   is_running, started, connection, prefetch_count, scene, analyzed,
                   image_list, reference_image>>

Next ==
    \/ \E connect_ok \in BOOLEAN, db_opens \in BOOLEAN :
          StartConsuming(connect_ok, db_opens)
    \/ Deliver
    \/ \E msg \in Messages, now \in Timestamps :
          Callback(msg, now)

Spec == Init /\ [][Next]_vars

(***************************************************************************)
(* BeeDetector.analyze_image on its own: a detector that is given one      *)
(* image, described by the masks its steps compute.                        *)
(***************************************************************************)

(* total areas calculate_total_area can give *)
TotalAreas == {90, 100}

(* what detect_bees can give at one threshold: mask pixels, contours kept *)
CandidateMasks ==
    { [raised |-> FALSE, bee_mask |-> m[1], contours |-> m[2]] :
        m \in { <<0, 0>>, <<30, 1>>, <<30, 12>>, <<50, 2>> } }

(* what the color segmentation can give: mask pixels, contours kept *)
ColorMasks ==
    { [pixels |-> a, filtered |-> 1] : a \in {0, 3, 36, 37, 60} }

(* images update_background can be given: references in colour, and a
   grayscale plane *)
ReferenceImages ==
    { [w |-> 6, h |-> 5, bgr |-> GREY], [w |-> 6, h |-> 5, bgr |-> BROWN] }

GrayPlane == [w |-> 6, h |-> 5, bgr |-> <<100>>]

Scenes ==
    [total : TotalAreas,
     cands : [1..Len(DETECTION_THRESHOLDS) -> CandidateMasks],
     color : ColorMasks]

InitAnalyze ==
    /\ background_size = 15
    /\ background_update_frequency = 1
    /\ polygon_file = None
    /\ crop_polygon = None
    /\ image_processor = None
    /\ bee_detector \in {Some(BeeDetector(ref, 20)) : ref \in ReferenceImages}
    /\ bee_database = None
    /\ image_buffer = << >>
    /\ results = << >>
    /\ image_count = 0
    /\ is_running = FALSE
    /\ started = FALSE
    /\ connection = None
    /\ prefetch_count = 0
    /\ inflight = << >>
    /\ delivered = 0
    /\ last = NoMessage
    /\ ingested = << >>
    /\ builds = << >>
    /\ recorder = << >>
    /\ scene \in {Some(sc) : sc \in Scenes}
    /\ analyzed = None
    /\ image_list = << >>
    /\ reference_image = None

(* analyze_image(image, filename) *)
AnalyzeImage ==
    /\ analyzed = None
    /\ analyzed' = analyze_masks(Get(scene).cands, Get(scene).color, Get(scene).total,
                                 NameHive).result
    /\ UNCHANGED <<background_size, background_update_frequency, polygon_file,
                   crop_polygon, image_processor, bee_detector, bee_database,
                   image_buffer, results, image_count, is_running, started,
                   connection, prefetch_count, inflight, delivered, last, ingested,
                   builds, recorder, scene, image_list, reference_image>>

(* update_background(new_background_image) *)
UpdateBackground(new_background_image) ==
    /\ bee_detector' = Some(update_background(Get(bee_detector), new_background_image))
    /\ UNCHANGED <<background_size, background_update_frequency, polygon_file,
                   crop_polygon, image_processor, bee_database, image_buffer,
                   results, image_count, is_running, started, connection,
                   prefetch_count, inflight, delivered, last, ingested, builds,
                   recorder, scene, analyzed,
                   image_list, reference_image>>

NextAnalyze ==
    \/ AnalyzeImage
    \/ \E new_background_image \in ReferenceImages \cup {GrayPlane} :
          UpdateBackground(new_background_image)

SpecAnalyze == InitAnalyze /\ [][NextAnalyze]_vars

(***************************************************************************)
(* ImageProcessor.create_background on its own: one call, on a list of     *)
(* frames.                                                                 *)
(***************************************************************************)
MaxFrames == 4

DARK == <<41, 81, 121>>

(* the frames create_background can be given: two shapes, three colours *)
BackgroundFrames ==
    { [w |-> sh[1], h |-> sh[2], bgr |-> c] :
        sh \in { <<6, 5>>, <<4, 5>> }, c \in {GREY, BROWN, DARK} }

FrameLists ==
    UNION { [1..n -> BackgroundFrames] : n \in 0..MaxFrames }

InitBackground ==
    /\ background_size = 15
    /\ background_update_frequency = 1
    /\ polygon_file = None
    /\ crop_polygon = None
    /\ image_processor = None
    /\ bee_detector = None
    /\ bee_database = None
    /\ image_buffer = << >>
    /\ results = << >>
    /\ image_count = 0
    /\ is_running = FALSE
    /\ started = FALSE
    /\ connection = None
    /\ prefetch_count = 0
    /\ inflight = << >>
    /\ delivered = 0
    /\ last = NoMessage
    /\ ingested = << >>
    /\ builds = << >>
    /\ recorder = << >>
    /\ scene = None
    /\ analyzed = None
    /\ image_list \in FrameLists
    /\ reference_image = None

(* create_background(image_list) *)
CreateBackground ==
    /\ reference_image = None
    /\ reference_image' = Some(create_background(image_list))
    /\ UNCHANGED <<background_size, background_update_frequency, polygon_file,
                   crop_polygon, image_processor, bee_detector, bee_database,
                   image_buffer, results, image_count, is_running, started,
                   connection, prefetch_count, inflight, delivered, last, ingested,
                   builds, recorder, scene, analyzed, image_list>>

NextBackground == CreateBackground

SpecBackground == InitBackground /\ [][NextBackground]_vars

(***************************************************************************)
(* Properties.                                                             *)
(***************************************************************************)

(* C1: every delivered message is confirmed exactly once, on every path of
   callback: one basic_ack or one basic_nack, never both, never neither, and
   a basic_nack never asks for a requeue. *)
C1_ConfirmedExactlyOnce ==
    delivered > 0 =>
        /\ last.tag = delivered
        /\ Len(last.confirms) = 1
        /\ last.confirms[1].op \in {"basic_ack", "basic_nack"}
        /\ ~last.confirms[1].requeue

(* C1, its case: a message whose processing raised, rejected once *)
C1_Witness ==
    /\ delivered > 0
    /\ last.raised
    /\ last.confirms = <<basic_nack>>

(* C2: a frame appended while the buffer has never reached its capacity gives
   no result and is acknowledged; a frame appended once it has reached it
   gives exactly one result, appended to results and handed to the recorder. *)
C2_BufferingThenOnePerFrame ==
    (delivered > 0 /\ last.appended) =>
        IF Len(ingested) < background_size
        THEN /\ last.emitted = 0
             /\ last.confirms = <<basic_ack>>
        ELSE /\ last.emitted = 1
             /\ results[Len(results)].image_count = image_count
             /\ bee_database # None => last.inserted # "none"

(* C3: every result has 0 <= bee_area_pixels <= total_area_pixels and a
   coverage between 0 and 100 percent. *)
C3_AreaWithinTotal ==
    \A i \in 1..Len(results) :
        /\ 0 <= results[i].bee_area_pixels
        /\ results[i].bee_area_pixels <= results[i].total_area_pixels
        /\ 0 <= results[i].bee_percentage
        /\ results[i].bee_percentage <= 100000

(* the result of the loop over the thresholds, before the color fallback *)
DiffBased ==
    select_best(Get(scene).cands, DETECTION_THRESHOLDS, Get(scene).total, NameHive)

(* C4: the color result replaces the diff-based one if and only if the color
   coverage is strictly above 1.2 times the diff-based coverage and strictly
   above 3 percent; at equality with either bound the diff-based result is
   kept. *)
C4_FallbackIffStrictlyAbove ==
    analyzed # None =>
        LET color_area == Get(scene).color.pixels
            total == Get(scene).total
        IN  (Get(analyzed).detection_method = "color_segmentation")
              <=> (/\ 10 * color_area > FALLBACK_RATIO_10 * DiffBased.bee_area_pixels
                   /\ 100 * color_area > FALLBACK_FLOOR * total)

(* the frame of the last message was analysed and is the reference it was
   analysed against *)
FrameIsReference ==
    /\ last.result # None
    /\ Get(last.frame) = Get(last.reference)

EveryCandidateEmpty ==
    \A i \in 1..Len(DETECTION_THRESHOLDS) :
        LET c == detect_bees(Get(bee_detector), Get(last.frame), DETECTION_THRESHOLDS[i])
        IN  ~c.raised /\ c.bee_mask = 0 /\ c.contours = 0

(* C5, as claimed: a frame identical to the reference has an empty mask at
   every threshold and a result of coverage 0, whatever its colours. *)
C5_IdenticalFrameIsZero ==
    FrameIsReference =>
        /\ EveryCandidateEmpty
        /\ Get(last.result).bee_percentage = 0

(* C5, amended: a frame identical to the reference has an empty mask at every
   threshold; its result has coverage 0 unless its color coverage is above 3
   percent, and then the result is the color one. *)
C5_IdenticalFrameIsZeroOrColor ==
    FrameIsReference =>
        LET color == color_segmentation(Get(last.frame))
            r == Get(last.result)
        IN  /\ EveryCandidateEmpty
            /\ IF 100 * color.pixels > FALLBACK_FLOOR * r.total_area_pixels
               THEN /\ r.detection_method = "color_segmentation"
                    /\ r.bee_area_pixels = color.pixels
                    /\ r.bee_percentage = Percentage3(color.pixels, r.total_area_pixels)
               ELSE /\ r.detection_method = "background_subtraction"
                    /\ r.bee_percentage = 0

(* C5, its case: a frame identical to the reference, of coverage 0 *)
C5_Witness ==
    /\ FrameIsReference
    /\ Get(last.result).bee_percentage = 0

(* C6: the buffer never holds more than background_size frames, and holds the
   most recently appended ones in the order they were appended. *)
C6_SlidingWindow ==
    LET n == Len(ingested)
        k == Min(n, background_size)
    IN  /\ Len(image_buffer) <= background_size
        /\ image_buffer = [i \in 1..k |-> ingested[n - k + i].img]

(* C6, its case: capacity + 1 frames appended, and the first one is gone *)
C6_Witness ==
    /\ Len(ingested) = background_size + 1
    /\ \A i \in 1..Len(image_buffer) : image_buffer[i] # ingested[1].img

(* C7: a detector exists, and an analysis ran, only once background_size
   frames have been appended. *)
C7_DetectorOnlyAfterFull ==
    /\ bee_detector # None => Len(ingested) >= background_size
    /\ last.analysed => Len(ingested) >= background_size

(* C7, its case: the frame that filled the buffer created the detector *)
C7_Witness ==
    /\ bee_detector # None
    /\ Len(ingested) = background_size
    /\ last.analysed

(* C8: whenever the buffer has reached its capacity, a detector exists. *)
C8_FullBufferIsReady ==
    Len(ingested) >= background_size => bee_detector # None

LatestWindow ==
    LET n == Len(ingested)
    IN  [i \in 1..background_size |-> ingested[n - background_size + i].img]

(* C10: with the default cadence, an analysed frame is the last appended one
   and is analysed against the reference built from the background_size most
   recent frames, itself included. *)
C10_ReferenceFromLatestWindow ==
    (background_update_frequency = 1 /\ last.analysed) =>
        /\ Len(ingested) >= background_size
        /\ ingested[Len(ingested)].n = image_count
        /\ ingested[Len(ingested)].img = Get(last.frame)
        /\ last.reference = create_background(LatestWindow)

(* C10, its case: a frame after the first build, whose window gives another
   reference than the window before it *)
C10_Witness ==
    /\ background_update_frequency = 1
    /\ last.analysed
    /\ Len(ingested) > background_size
    /\ last.reference
         # create_background([i \in 1..background_size |->
                                ingested[Len(ingested) - background_size + i - 1].img])

(* C11: once a detector exists it exists for the rest of the run (the
   pipeline becomes READY at most once and never goes back to BUFFERING), and
   a refresh changes the reference of that detector and nothing else of it. *)
C11_ReadyIsForGood ==
    [][bee_detector # None =>
          /\ bee_detector' # None
          /\ Get(bee_detector').valid_area_pixels = Get(bee_detector).valid_area_pixels
          /\ Len(builds') >= Len(builds)]_vars

(* C11, its case: a detector whose reference has been refreshed *)
C11_Witness ==
    /\ bee_detector # None
    /\ Len(builds) >= 2
    /\ Get(bee_detector).valid_area_pixels = Get(image_processor).polygon_area

(* C12: whenever analyze_image can run, the grayscale cache of the detector is
   the grayscale of the reference it holds, also after an update_background
   that raised. *)
C12_GrayCacheIsOfBackground ==
    (bee_detector # None /\ analyzed = None) =>
        /\ cvtColor_accepts(Get(bee_detector).background)
        /\ Get(bee_detector).background_gray = cvtColorGray(Get(bee_detector).background)

(* the position of the first event e in the events of the last message (0:
   absent) *)
FirstEvent(e) ==
    IF \E i \in 1..Len(last.events) : last.events[i] = e
    THEN CHOOSE i \in 1..Len(last.events) :
            /\ last.events[i] = e
            /\ \A j \in 1..(i - 1) : last.events[j] # e
    ELSE 0

(* C13: a message is acknowledged only as the last step of its processing,
   after the result it gave was appended to results and handed to the
   recorder; at most one message is unconfirmed at any time and messages are
   handed to callback in the order of their delivery tags. *)
C13_AckAfterProcessing ==
    /\ Len(inflight) <= 1
    /\ delivered > 0 =>
          /\ last.tag = delivered
          /\ FirstEvent("basic_ack") \in {0, Len(last.events)}
          /\ (last.emitted = 1 /\ FirstEvent("basic_ack") # 0) =>
                /\ FirstEvent("results.append") # 0
                /\ FirstEvent("results.append") < FirstEvent("insert_detection_result")
                /\ FirstEvent("insert_detection_result") < FirstEvent("basic_ack")
                /\ last.inserted # "none"

(* C13, its case: a result appended and recorded, then the acknowledgement,
   with no message left unconfirmed *)
C13_Witness ==
    /\ delivered > 1
    /\ last.emitted = 1
    /\ last.inserted = "ok"
    /\ last.confirms = <<basic_ack>>
    /\ inflight = << >>

(* C14: a message whose body does not decode is acknowledged and dropped: it
   is confirmed by one basic_ack, it is not counted, not appended to the
   buffer, gives no result, and leaves the pipeline as it was for the next
   message. *)
C14_UndecodableIsDropped ==
    [][(delivered' = delivered + 1 /\ ~last'.decoded) =>
          /\ last'.confirms = <<basic_ack>>
          /\ last'.emitted = 0
          /\ image_count' = image_count
          /\ image_buffer' = image_buffer
          /\ ingested' = ingested
          /\ results' = results
          /\ recorder' = recorder
          /\ bee_detector' = bee_detector
          /\ crop_polygon' = crop_polygon
          /\ image_processor' = image_processor
          /\ is_running']_vars

(* C14, its case: an undecodable message dropped by a pipeline that has a
   detector *)
C14_Witness ==
    /\ delivered > 1
    /\ ~last.decoded
    /\ last.confirms = <<basic_ack>>
    /\ bee_detector # None

(* the last message was rejected because no region could be obtained for it *)
RegionUnavailable ==
    /\ delivered > 0
    /\ last.decoded
    /\ ~last.counted
    /\ last.confirms = <<basic_nack>>

(* C15: a message for which no region can be obtained is rejected without
   requeue and ingestion stops: the message that follows it is not counted,
   buffered or analysed, and load_crop_polygon is not called for it. *)
C15_RegionFailureStopsIngestion ==
    [][(RegionUnavailable /\ delivered' = delivered + 1) =>
          /\ image_count' = image_count
          /\ ingested' = ingested
          /\ image_buffer' = image_buffer
          /\ crop_polygon' = crop_polygon
          /\ \A i \in 1..Len(last'.events) : last'.events[i] # "load_crop_polygon"]_vars

(* C16: a failure of the recorder never halts the stream: a message whose
   insert_detection_result failed is still acknowledged and the consumer goes
   on; and once start_consuming has connected, messages are consumed whether
   or not the recorder could be opened. *)
C16_RecorderNeverHalts ==
    /\ (started /\ connection # None) => is_running
    /\ (delivered > 0 /\ last.inserted \in {"error", "raised"}) =>
          /\ last.confirms = <<basic_ack>>
          /\ is_running

(* C17: a frame whose message carries no filename is given the filename
   synthesized from image_count and the timestamp, so that no two such frames
   are given the same filename; a frame whose message carries a filename is
   given that filename, sanitized. *)
C17_FilenameFromCounterOrHeader ==
    /\ \A i \in 1..Len(ingested) :
          \E now \in Timestamps :
              ingested[i].filename
                = frame_filename(ingested[i].header, ingested[i].n, now)
    /\ \A i, j \in 1..Len(ingested) :
          (i # j /\ ingested[i].header = None /\ ingested[j].header = None)
              => ingested[i].filename # ingested[j].filename

(* image_list in the order perm *)
Permuted(perm) == [i \in 1..Len(image_list) |-> image_list[perm[i]]]

(* C18, as claimed: create_background gives the same reference for every
   permutation of a non-empty list of frames, also when the frames have
   different dimensions. *)
C18_PermutationInvariant ==
    (reference_image # None /\ Len(image_list) > 0) =>
        \A perm \in Permutations(1..Len(image_list)) :
            create_background(Permuted(perm)) = Get(reference_image)

(* C18, amended: create_background gives the same reference for every
   permutation of a non-empty list of frames that puts first a frame of the
   dimensions of the first frame; the reference has the dimensions of the
   frame that is first. *)
C18_InvariantUpToFirstShape ==
    (reference_image # None /\ Len(image_list) > 0) =>
        /\ Get(reference_image) # None
        /\ same_shape(Get(Get(reference_image)), image_list[1])
        /\ \A perm \in Permutations(1..Len(image_list)) :
              same_shape(image_list[perm[1]], image_list[1])
                  => create_background(Permuted(perm)) = Get(reference_image)

(* C18, its case: the reference of an even number of frames of different
   colours and of different dimensions *)
C18_Witness ==
    /\ reference_image # None
    /\ Len(image_list) = 4
    /\ \E i \in 2..4 : ~same_shape(image_list[i], image_list[1])
    /\ \E i \in 2..4 : same_shape(image_list[i], image_list[1])
    /\ \E i, j \in 1..4 : image_list[i].bgr # image_list[j].bgr

(* a polygon a Region can be established from: three points or more, and an
   area that is not zero *)
ValidRegion(polygon) ==
    /\ Len(polygon) >= 3
    /\ contourArea(polygon) > 0

(* C19: a polygon of fewer than 3 points or of zero area, loaded from the file
   or returned by the manual selection, never becomes crop_polygon, and no
   frame is cropped or analysed with it. *)
C19_DegenerateRegionRejected ==
    /\ crop_polygon # None => ValidRegion(Get(crop_polygon))
    /\ image_processor # None => ValidRegion(Get(image_processor).crop_polygon)
    /\ bee_detector # None => Get(bee_detector).valid_area_pixels > 0

(* C20: a failed build of the reference is recoverable.  create_background of
   no frames returns None; a frame appended to a full buffer while there is
   no detector attempts the build, and when the build fails there is still no
   detector, the message is acknowledged without a result and the consumer
   goes on; when a refresh fails the detector is left as it was and the frame
   is analysed and gives its result. *)
C20_FailedBuildIsRecoverable ==
    [][(delivered' = delivered + 1 /\ last'.appended) =>
          /\ create_background(<< >>) = None
          /\ (bee_detector = None /\ buffer_full(image_buffer', background_size))
                => last'.build_attempted
          /\ (bee_detector = None /\ last'.build_attempted /\ ~last'.built) =>
                /\ bee_detector' = None
                /\ last'.confirms = <<basic_ack>>
                /\ last'.emitted = 0
                /\ is_running'
          /\ (bee_detector # None /\ last'.build_attempted /\ ~last'.built) =>
                /\ bee_detector' = bee_detector
                /\ last'.analysed
                /\ last'.raised \/ last'.emitted = 1]_vars

(* C20, its case: a build that failed on the frame that filled the buffer,
   and was attempted again, and failed again, on the next frame *)
C20_Witness ==
    /\ Len(ingested) > background_size
    /\ bee_detector = None
    /\ last.appended
    /\ last.build_attempted
    /\ ~last.built
    /\ last.confirms = <<basic_ack>>

(* C21: once crop_polygon is set it never changes, nor does the image
   processor derived from it (its polygon and polygon_area), whatever the
   later messages do, and load_crop_polygon is not called again. *)
C21_RegionIsImmutable ==
    [][crop_polygon # None =>
          /\ crop_polygon' = crop_polygon
          /\ image_processor' = image_processor
          /\ delivered' = delivered + 1 =>
                \A i \in 1..Len(last'.events) : last'.events[i] # "load_crop_polygon"]_vars

(* C21, its case: a region still there, with its area, after the reference
   was built and refreshed and results were emitted *)
C21_Witness ==
    /\ crop_polygon # None
    /\ Get(image_processor).polygon_area = contourArea(Get(crop_polygon))
    /\ Len(builds) >= 2
    /\ Len(results) >= 2

(* the score min(coverage, 60) + min(2 * contours, 20) of the candidate at
   threshold i of the scene, times the total area *)
CandidateScore(i) ==
    LET c == Get(scene).cands[i]
        total == Get(scene).total
    IN  Min(100 * c.bee_mask, 60 * total) + Min(2 * c.contours, 20) * total

(* C22: the primary candidate of analyze_image is the candidate of a threshold
   whose score is maximal over the thresholds, the earliest such threshold in
   the configured order, and threshold_used reports that threshold. *)
C22_PrimaryIsEarliestMaximum ==
    analyzed # None =>
        \E k \in 1..Len(DETECTION_THRESHOLDS) :
            /\ \A i \in 1..Len(DETECTION_THRESHOLDS) : CandidateScore(i) <= CandidateScore(k)
            /\ \A i \in 1..(k - 1) : CandidateScore(i) < CandidateScore(k)
            /\ DiffBased.threshold_used = DETECTION_THRESHOLDS[k]
            /\ DiffBased.bee_area_pixels = Get(scene).cands[k].bee_mask
            /\ DiffBased.num_bee_contours = Get(scene).cands[k].contours
            /\ Get(analyzed).detection_method = "background_subtraction"
                  => Get(analyzed).threshold_used = DETECTION_THRESHOLDS[k]

(* C22, its case: the maximum reached at the second and at the third
   threshold and not at the first, and the second one kept *)
C22_Witness ==
    /\ analyzed # None
    /\ CandidateScore(1) < CandidateScore(2)
    /\ CandidateScore(2) = CandidateScore(3)
    /\ CandidateScore(4) <= CandidateScore(2)
    /\ Get(analyzed).detection_method = "background_subtraction"
    /\ Get(analyzed).threshold_used = DETECTION_THRESHOLDS[2]

(* C23: the result of analyze_image is consistent after the fallback decision:
   its method is color_segmentation exactly when threshold_used is
   'color_based', and otherwise background_subtraction with one of the
   configured thresholds; its coverage is 100 * bee_area_pixels /
   total_area_pixels rounded to 3 decimals, for the mask it returns; its
   filename and total_area_pixels are those of the primary result. *)
C23_ResultIsConsistent ==
    analyzed # None =>
        LET r == Get(analyzed)
        IN  /\ r.detection_method \in {"color_segmentation", "background_subtraction"}
            /\ (r.detection_method = "color_segmentation") <=> (r.threshold_used = COLOR_BASED)
            /\ r.detection_method = "background_subtraction"
                  => r.threshold_used \in Range(DETECTION_THRESHOLDS)
            /\ r.bee_area_pixels = r.bee_mask
            /\ 2 * Abs(r.bee_percentage * r.total_area_pixels - 100000 * r.bee_area_pixels)
                  <= r.total_area_pixels
            /\ r.filename = DiffBased.filename
            /\ r.total_area_pixels = DiffBased.total_area_pixels
            /\ r.total_area_pixels = Get(scene).total

(* C23, its case: a color result that replaced a primary result of another
   area, with a coverage that needed rounding *)
C23_Witness ==
    /\ analyzed # None
    /\ Get(analyzed).detection_method = "color_segmentation"
    /\ DiffBased.bee_area_pixels > 0
    /\ Get(analyzed).bee_area_pixels # DiffBased.bee_area_pixels
    /\ (100000 * Get(analyzed).bee_area_pixels) % Get(analyzed).total_area_pixels # 0

(* C24: in READY, a frame whose cropped dimensions are not those of the
   reference is analysed like any other frame: it gives a result and its
   message is acknowledged (unless the recorder raised). *)
C24_MismatchedFrameIsReconciled ==
    (/\ delivered > 0
     /\ last.was_ready
     /\ last.analysed
     /\ ~same_shape(Get(last.frame), Get(last.reference))
     /\ last.inserted # "raised") =>
        /\ last.emitted = 1
        /\ last.confirms = <<basic_ack>>

(* C25: a message that is negatively acknowledged leaves no trace:
   image_count, the buffer, the detector and results are what they were
   before it was delivered. *)
C25_NackLeavesNoTrace ==
    [][(delivered' = delivered + 1 /\ last'.confirms = <<basic_nack>>) =>
          /\ image_count' = image_count
          /\ image_buffer' = image_buffer
          /\ bee_detector' = bee_detector
          /\ results' = results]_vars

(* C26: the background_updated flag of an emitted result is true exactly when
   the reference was built or replaced while its frame was processed. *)
C26_FlagTellsTheUpdate ==
    (delivered > 0 /\ last.emitted = 1) =>
        (Get(last.result).background_updated <=> last.built)

(* the image_count values of a sequence of results *)
CountsOf(rs) == [i \in 1..Len(rs) |-> rs[i].image_count]

(* a sequence of numbers in strictly increasing order *)
StrictlyIncreasing(ns) == \A i, j \in 1..Len(ns) : i < j => ns[i] < ns[j]

(* C27: image_count grows by exactly 1 for a message that is decoded and has a
   region (checked before or by this message) and by 0 for any other; a
   message adds at most one result, at the end of results and carrying the
   new image_count, it reaches the recorder at most once and at its end, and
   both results and the recorder are in strictly increasing image_count
   order. *)
C27_CountsAndOrder ==
    [][delivered' = delivered + 1 =>
          /\ image_count' = image_count +
                 (IF last'.decoded /\ crop_polygon' # None THEN 1 ELSE 0)
          /\ \/ results' = results
             \/ /\ Len(results') = Len(results) + 1
                /\ SubSeq(results', 1, Len(results)) = results
                /\ results'[Len(results')].image_count = image_count'
                /\ image_count' = image_count + 1
          /\ \/ recorder' = recorder
             \/ /\ recorder' = Append(recorder, image_count')
                /\ Len(results') = Len(results) + 1
          /\ StrictlyIncreasing(CountsOf(results'))
          /\ StrictlyIncreasing(recorder')]_vars

(* C27: two messages in a row each gave a result, both recorded, the second
   carrying the larger image_count; every message so far was counted. *)
C27_Witness ==
    /\ Len(results) >= 2
    /\ CountsOf(results) = recorder
    /\ results[2].image_count = results[1].image_count + 1
    /\ image_count = delivered

====
